---------------------------- MODULE Spec2Model ----------------------------
(***************************************************************************)
(* Model of news_bot.py: one invocation of main() polls the configured     *)
(* sources, skips items whose fingerprint is in processed.json, matches    *)
(* the rest against KEYWORDS, queues a message per match, sends the queue  *)
(* and writes the fingerprints back to processed.json.                     *)
(*                                                                         *)
(* Strings are TLA+ strings (ASCII stand-ins for the Russian fixtures).    *)
(* The network (feedparser, requests, Telegram) and the sumy summarizer    *)
(* are the environment: each call draws its result from a small set.       *)
(***************************************************************************)
EXTENDS Integers, Sequences, FiniteSets, TLC

(***************************************************************************)
(* Bounds of the model                                                     *)
(***************************************************************************)
\* number of invocations of main() in one behaviour
MaxRuns == 3
\* total number of entries the sources hand out during one invocation
MaxItems == 2

(***************************************************************************)
(* Program constants                                                       *)
(***************************************************************************)
\* (title + link)[:500]
FINGERPRINT_CHARS == 500
\* combined[-2000:]
KEEP_LAST == 2000
\* fetch_plain_article_text(url, max_chars=4000)
max_chars == 4000
\* links[:30]
MAX_SCRAPED_LINKS == 30
\* snippet[:300]
SNIPPET_CHARS == 300
\* summarize_text(article_text, sentence_count=3) and split(".")[:3]
sentence_count == 3

DEFAULT_RSS ==
    << "https://news.google.com/rss/search?q=regulation",
       "https://news.google.com/rss/search?q=duma",
       "https://www.garant.ru/rss/news.rss" >>

(***************************************************************************)
(* Python string and list primitives used by the program                   *)
(***************************************************************************)
\* s[:n]
Take(s, n) == SubSeq(s, 1, IF Len(s) < n THEN Len(s) ELSE n)

\* s.startswith(prefix)
startswith(s, prefix) == Len(prefix) <= Len(s) /\ SubSeq(s, 1, Len(prefix)) = prefix

\* k in s   (substring test)
IsSubstring(k, s) ==
    \E i \in 1..(Len(s) - Len(k) + 1) : SubSeq(s, i, i + Len(k) - 1) = k

UPPERCASE == {"A", "B", "C", "D", "E", "F", "G", "H", "I", "J", "K", "L", "M",
              "N", "O", "P", "Q", "R", "S", "T", "U", "V", "W", "X", "Y", "Z"}

lower_char(c) ==
    IF c \notin UPPERCASE THEN c ELSE
    CASE c = "A" -> "a" [] c = "B" -> "b" [] c = "C" -> "c" [] c = "D" -> "d"
      [] c = "E" -> "e" [] c = "F" -> "f" [] c = "G" -> "g" [] c = "H" -> "h"
      [] c = "I" -> "i" [] c = "J" -> "j" [] c = "K" -> "k" [] c = "L" -> "l"
      [] c = "M" -> "m" [] c = "N" -> "n" [] c = "O" -> "o" [] c = "P" -> "p"
      [] c = "Q" -> "q" [] c = "R" -> "r" [] c = "S" -> "s" [] c = "T" -> "t"
      [] c = "U" -> "u" [] c = "V" -> "v" [] c = "W" -> "w" [] c = "X" -> "x"
      [] c = "Y" -> "y" [] c = "Z" -> "z" [] OTHER -> c

\* s.lower(): character by character (the string is halved at each level)
RECURSIVE lower(_)
lower(s) ==
    IF Len(s) <= 1 THEN lower_char(s)
    ELSE LET half == Len(s) \div 2
         IN  lower(SubSeq(s, 1, half)) \o lower(SubSeq(s, half + 1, Len(s)))

IsSpace(c) == c \in {" ", "\t", "\n"}

RECURSIVE lstrip(_)
lstrip(s) ==
    IF Len(s) > 0 /\ IsSpace(SubSeq(s, 1, 1)) THEN lstrip(SubSeq(s, 2, Len(s))) ELSE s

RECURSIVE rstrip(_)
rstrip(s) ==
    IF Len(s) > 0 /\ IsSpace(SubSeq(s, Len(s), Len(s)))
    THEN rstrip(SubSeq(s, 1, Len(s) - 1)) ELSE s

\* s.strip()
strip(s) == lstrip(rstrip(s))

\* s.split(sep) for a one-character sep: always at least one field
RECURSIVE split(_, _)
split(s, sep) ==
    IF \E i \in 1..Len(s) : SubSeq(s, i, i) = sep
    THEN LET i == CHOOSE j \in 1..Len(s) :
                     /\ SubSeq(s, j, j) = sep
                     /\ \A h \in 1..(j - 1) : SubSeq(s, h, h) # sep
         IN  <<SubSeq(s, 1, i - 1)>> \o split(SubSeq(s, i + 1, Len(s)), sep)
    ELSE <<s>>

\* sep.join(parts)
RECURSIVE join(_, _)
join(sep, parts) ==
    IF Len(parts) = 0 THEN ""
    ELSE IF Len(parts) = 1 THEN parts[1]
    ELSE parts[1] \o sep \o join(sep, Tail(parts))

\* e.get(key, default)
Get(e, key, default) == IF key \in DOMAIN e THEN e[key] ELSE default

\* x or y   on strings
OrElse(x, y) == IF x # "" THEN x ELSE y

(***************************************************************************)
(* Pure functions of the program                                           *)
(***************************************************************************)
\* What sources.txt can be: absent, or a file of lines.
SourcesFiles ==
    { [exists |-> FALSE, lines |-> <<>>],
      [exists |-> TRUE,
       lines |-> << "# extra feeds", "   ", " feeds/local.xml " >>] }

\* load_sources(): the kept lines of sources.txt, then DEFAULT_RSS
load_sources(file) ==
    IF file.exists
    THEN LET keep(l) == strip(l) # "" /\ ~startswith(l, "#")
             kept == SelectSeq(file.lines, keep)
         IN  [i \in 1..Len(kept) |-> strip(kept[i])] \o DEFAULT_RSS
    ELSE DEFAULT_RSS

\* md5_text(s): the hex digest of s; MD5 is taken to be collision free on the
\* strings of the model, so the digest is written as the tagged preimage.
md5_text(s) == "md5:" \o s

\* Variant: the title is cut to 500 characters before the link is appended
Fingerprint_cutsTitleFirst(title, link) ==
    md5_text(Take(title, FINGERPRINT_CHARS) \o link)
\* uid = md5_text((title + link)[:500])
Fingerprint(title, link) == md5_text(Take(title \o link, FINGERPRINT_CHARS))

\* Variant: without the "if not k: continue"
matches_keywords_blankMatches(text, keyword_list) ==
    LET text_low == lower(text)
    IN  \E i \in 1..Len(keyword_list) :
            IsSubstring(lower(strip(keyword_list[i])), text_low)
\* matches_keywords(text, keywords): some non-blank keyword, stripped and
\* lower-cased, occurs in text.lower() as a substring.
matches_keywords(text, keyword_list) ==
    LET text_low == lower(text)
    IN  \E i \in 1..Len(keyword_list) :
            LET k == lower(strip(keyword_list[i]))
            IN  k # "" /\ IsSubstring(k, text_low)

\* The clock read by datetime.utcnow().isoformat()
Clock == {"2026-01-01T00:00:00"}

\* make_message(item, summary)
make_message(item, summary, now) ==
    LET title == strip(Get(item, "title", ""))
        link == strip(Get(item, "link", ""))
        published == Get(item, "published", "")
        published_str == IF published # "" THEN published ELSE now
    IN  "N <b>" \o title \o "</b>\n\n"
        \o "D " \o published_str \o "\n"
        \o "L " \o link \o "\n\n"
        \o "T <b>Brief:</b>\n" \o summary \o "\n\n"

\* The naive fallback of main(): ". ".join(article_text.split(".")[:3]) + "..."
NaiveSummary(article_text) ==
    join(". ", Take(split(article_text, "."), sentence_count)) \o "..."

\* The snippet fallback of main()
SnippetSummary(snippet) ==
    IF snippet # "" THEN Take(snippet, SNIPPET_CHARS) \o "..." ELSE "No short text."

(***************************************************************************)
(* The environment: feeds, pages, the summarizer                           *)
(***************************************************************************)
\* Entries a feed can carry (fetch_rss builds title, link, published, summary)
ItemA == [title |-> "Duma passed law on Banks", link |-> "https://x/1",
          published |-> "Mon, 05 Jan 2026", summary |-> ""]
ItemB == [title |-> " Weather ", link |-> "https://x/2",
          published |-> "", summary |-> "rain tomorrow"]
FeedItems == {ItemA, ItemB}

\* Links a scraped page can carry (main builds title, link, published only)
ItemC == [title |-> "Bank rates", link |-> "https://x/3", published |-> ""]
PageLinks == {ItemC}

\* Sequences over S of length at most n
RECURSIVE SeqsUpTo(_, _)
SeqsUpTo(S, n) ==
    IF n = 0 THEN {<<>>}
    ELSE LET shorter == SeqsUpTo(S, n - 1)
         IN  shorter \cup {Append(s, x) : s \in {t \in shorter : Len(t) = n - 1}, x \in S}

\* What a call into the network returns: a value, or it raises
Returned(v) == [raised |-> FALSE, value |-> v]
Raised == [raised |-> TRUE]

\* Bodies an article page can have
PageTexts == { "Central bank cut rates. Markets rose. More soon. End",
               "Sunny all week" }

\* What the sources serve: the entries of the feeds, the links of the pages
\* and the bodies of the articles
Web(feed_items, page_links, page_texts) ==
    [feed_items |-> feed_items, page_links |-> page_links, page_texts |-> page_texts]
NewsWeb == Web(FeedItems, PageLinks, PageTexts)
\* One feed entry, one page link, articles that cannot be fetched
SmallWeb == Web({ItemA}, {ItemC}, {})

\* Feeds whose titles carry a keyword inside a longer word, or inflected
ItemAtm == [title |-> "Bankomat broken", link |-> "https://x/4",
            published |-> "", summary |-> ""]
ItemInflected == [title |-> "Banks reported", link |-> "https://x/5",
                  published |-> "", summary |-> ""]
MorphologyWeb == Web({ItemAtm, ItemInflected}, {}, {"Sunny all week"})

\* Feeds with titles around 500 characters and a snippet above 300
Pad10 == "0123456789"
Pad50 == Pad10 \o Pad10 \o Pad10 \o Pad10 \o Pad10
Pad250 == Pad50 \o Pad50 \o Pad50 \o Pad50 \o Pad50
\* 498 characters
LongTitle == "Bank law " \o Pad250 \o Pad50 \o Pad50 \o Pad50 \o Pad50
                 \o Pad10 \o Pad10 \o Pad10 \o "012345678"
\* title + link is LongTitle, "ab", "/1": 499 characters of title
ItemLong1 == [title |-> LongTitle \o "a", link |-> "b/1", published |-> "",
              summary |-> Pad250 \o Pad50 \o Pad10]
\* title + link is LongTitle, "ab", "/2": 500 characters of title
ItemLong2 == [title |-> LongTitle \o "ab", link |-> "/2", published |-> "",
              summary |-> ""]
\* a link scraped from a page, as lines 161-164 build it: title + link is
\* LongTitle, "ac", "https://x/2"
ItemLong3 == [title |-> LongTitle \o "ac", link |-> "https://x/2",
              published |-> ""]
LongWeb == Web({ItemLong1, ItemLong2}, {ItemLong3},
               {"Central bank cut rates. Markets rose. More soon. End"})

\* What requests.get of an article can yield
ArticleResponses(texts) == {Returned(t) : t \in texts} \cup {Raised}

\* What feedparser.parse can yield for a source, at most n entries
FeedResponses(items, n) == {Returned(f) : f \in SeqsUpTo(items, n)} \cup {Raised}

\* What scraping the source page for links can yield, at most n links
PageResponses(links, n) == {Returned(l) : l \in SeqsUpTo(links, n)} \cup {Raised}

\* summarize_text(text): sumy's LexRank returns sentences of the text (here the
\* first one); it raises on a text it cannot split into sentences.
summarize_text(text) ==
    IF IsSubstring(".", text) THEN Returned(split(text, ".")[1] \o ".") ELSE Raised

\* fetch_rss(url): the entries of the feed, or [] on any exception
fetch_rss(response) == IF response.raised THEN <<>> ELSE response.value

\* The scraping fallback of main(): links[:30], or [] on any exception
scrape_links(response) ==
    IF response.raised THEN <<>> ELSE Take(response.value, MAX_SCRAPED_LINKS)

\* fetch_plain_article_text(url): text[:max_chars], or "" on any exception
fetch_plain_article_text(response) ==
    IF response.raised THEN "" ELSE Take(response.value, max_chars)

\* uid of an entry, as main() computes it
Uid(e) == Fingerprint(OrElse(Get(e, "title", ""), ""), OrElse(Get(e, "link", ""), ""))

\* The texts main() hands to summarize_text for an entry it queues: the
\* article text when it is not empty
summarizer_input(article_text) == IF article_text # "" THEN <<article_text>> ELSE <<>>

\* Variant: the summarizer is tried on every text, the empty one included
Summary_summarizesEmpty(e, article_text) ==
    IF ~summarize_text(article_text).raised
    THEN summarize_text(article_text).value
    ELSE NaiveSummary(article_text)
\* The summary main() attaches to an entry, given the article text
Summary(e, article_text) ==
    IF article_text # ""
    THEN IF ~summarize_text(article_text).raised
         THEN summarize_text(article_text).value
         ELSE NaiveSummary(article_text)
    ELSE SnippetSummary(OrElse(Get(e, "summary", ""), ""))

\* Variant: add(uid) moved above the keyword test
mark_new_always(new_set, uid, relevant) == new_set \cup {uid}
\* new_processed after the loop body: add(uid) is reached only past the two
\* "continue" of the body
mark_new(new_set, uid, relevant) == IF relevant THEN new_set \cup {uid} ELSE new_set

\* Variant: the membership test dropped
IsProcessed_never(uid, processed_set) == FALSE
\* uid in processed
IsProcessed(uid, processed_set) == uid \in processed_set.known

\* The keyword test of main(): on title + " " + snippet, else on the article
IsRelevant(e, article_text, kw) ==
    LET title == OrElse(Get(e, "title", ""), "")
        snippet == OrElse(Get(e, "summary", ""), "")
        check_text == lower(title \o " " \o snippet)
    IN  IF ~matches_keywords(check_text, kw)
        THEN matches_keywords(article_text, kw)
        ELSE TRUE

(***************************************************************************)
(* processed.json                                                          *)
(*                                                                         *)
(* A set of fingerprints is a record: known holds the fingerprints of the  *)
(* entries of the model, other counts the fingerprints of entries no       *)
(* source of the model serves any more.                                    *)
(***************************************************************************)
FpSet(known, other) == [known |-> known, other |-> other]
Size(fps) == Cardinality(fps.known) + fps.other
\* Variant: the new fingerprints are left out of what is written back
Union_onlyLoaded(fps, uids) == fps
\* Variant: only new_processed is written back
Union_onlyNew(fps, uids) == FpSet(uids, 0)
\* processed.union(new_processed)
Union(fps, uids) == FpSet(fps.known \cup uids, fps.other)

\* Shapes of the file content
\*   missing            no file
\*   invalid_json       json.load raises
\*   not_an_object      valid JSON that is no object: state.get raises
\*   not_iterable       "processed" is a number or null: set(...) raises
\*   no_key             an object without "processed"
\*   ok                 an object with a "processed" list
File(kind, fps) == [kind |-> kind, fps |-> fps]
CrashingKinds == {"invalid_json", "not_an_object", "not_iterable"}

InitialFiles ==
    {File(k, FpSet({}, 0)) : k \in {"missing", "no_key"} \cup CrashingKinds}
    \cup {File("ok", FpSet({}, n)) : n \in {0, KEEP_LAST - 1, KEEP_LAST + 1}}

\* Variant: load_state always answers the default {"processed": []}
load_state_forgets(file) ==
    IF file.kind \in CrashingKinds THEN Raised ELSE Returned(FpSet({}, 0))
\* load_state() followed by set(state.get("processed", [])):
\* the loaded set, or a raise
load_state(file) ==
    IF file.kind \in CrashingKinds THEN Raised
    ELSE IF file.kind = "ok" THEN Returned(file.fps)
    ELSE Returned(FpSet({}, 0))

\* Variant: no slice
Trimmed_keepsAll(union) == {union}
\* list(union)[-2000:]: a Python set of str iterates in hash order, which is
\* unrelated to insertion order and differs between processes; the slice
\* therefore keeps an arbitrary KEEP_LAST of the elements.
Trimmed(union) ==
    LET excess == IF Size(union) > KEEP_LAST THEN Size(union) - KEEP_LAST ELSE 0
    IN  { FpSet(union.known \ D, union.other - (excess - Cardinality(D))) :
            D \in { X \in SUBSET union.known :
                       /\ Cardinality(X) <= excess
                       /\ excess - Cardinality(X) <= union.other } }


(***************************************************************************)
(* State                                                                   *)
(***************************************************************************)
\* Invocations of main(). Spec runs them one after the other as "cron".
Procs == {"cron", "manual"}

VARIABLES
    \* configuration read at import: environment and sources.txt
    TELEGRAM_TOKEN, TELEGRAM_CHAT_ID, KEYWORDS, sources_txt,
    \* what the sources serve
    web,
    \* the content of processed.json
    processed_json,
    \* locals of main(), per invocation
    pc, keywords, sources, processed, new_processed, to_notify,
    src_i, entries, send_i,
    \* history: number of invocations started
    runs,
    \* history, per invocation: the entries met with what the article fetch
    \* answered, the calls of bot.send_message with their outcome, and the
    \* content of processed.json when the invocation began
    seen, attempts, file_at_start,
    \* history, per invocation: the reads and writes of processed.json, the
    \* texts handed to summarize_text, and the entries queued with the article
    \* text fetched for them, in order
    file_ops, summarized, queued,
    \* history: who read and who wrote processed.json, in order
    file_log,
    \* history: fingerprints queued by a finished invocation and in the file it
    \* saved, and the entries they were computed from
    persisted_ever, persisted_items

config == <<TELEGRAM_TOKEN, TELEGRAM_CHAT_ID, KEYWORDS, sources_txt>>
locals == <<keywords, sources, processed, new_processed, to_notify,
            src_i, entries, send_i>>
history == <<seen, attempts, file_at_start>>
trace == <<file_ops, summarized, queued>>
vars == <<config, web, processed_json, pc, locals, runs, history, trace,
          file_log, persisted_ever, persisted_items>>

\* os.environ.get(...) is None when the variable is not set
None == ""
\* os.environ.get("KEYWORDS", <default>): a list of keywords (the default is
\* one), or a value that splits into blank entries only
KeywordsEnv == {"finance, Bank", " ,"}
NotFetched == [raised |-> FALSE, value |-> "<not fetched>"]

\* The fingerprints of a queue of (uid, msg)
Uids(queue) == {queue[i][1] : i \in 1..Len(queue)}

\* The state when the module has been imported, for given environments
InitFrom(tokens, chat_ids, keywords_env, sources_files, served, files) ==
    /\ TELEGRAM_TOKEN \in tokens
    /\ TELEGRAM_CHAT_ID \in chat_ids
    /\ KEYWORDS \in {split(k, ",") : k \in keywords_env}
    /\ sources_txt \in sources_files
    /\ web = served
    /\ processed_json \in files
    /\ pc = [p \in Procs |-> "idle"]
    /\ keywords = [p \in Procs |-> <<>>]
    /\ sources = [p \in Procs |-> <<>>]
    /\ processed = [p \in Procs |-> FpSet({}, 0)]
    /\ new_processed = [p \in Procs |-> {}]
    /\ to_notify = [p \in Procs |-> <<>>]
    /\ src_i = [p \in Procs |-> 1]
    /\ entries = [p \in Procs |-> <<>>]
    /\ send_i = [p \in Procs |-> 1]
    /\ runs = 0
    /\ seen = [p \in Procs |-> <<>>]
    /\ attempts = [p \in Procs |-> <<>>]
    /\ file_at_start = [p \in Procs |-> File("missing", FpSet({}, 0))]
    /\ file_ops = [p \in Procs |-> <<>>]
    /\ summarized = [p \in Procs |-> <<>>]
    /\ queued = [p \in Procs |-> <<>>]
    /\ file_log = <<>>
    /\ persisted_ever = {}
    /\ persisted_items = {}

Init ==
    InitFrom({None, "123:abc"}, {None, "-1001"}, KeywordsEnv, SourcesFiles,
             NewsWeb, InitialFiles)

Finished(p) == pc[p] \in {"idle", "aborted", "crashed", "done"}

(***************************************************************************)
(* main()                                                                  *)
(***************************************************************************)
\* Variant: only the token is tested
credentials_missing_tokenOnly(token, chat_id) == token = None
\* not TELEGRAM_TOKEN or not TELEGRAM_CHAT_ID
credentials_missing(token, chat_id) == token = None \/ chat_id = None

\* main() is entered: the credential check, keywords and load_sources()
Begin(p) ==
    /\ Finished(p)
    /\ runs < MaxRuns
    /\ runs' = runs + 1
    /\ IF credentials_missing(TELEGRAM_TOKEN, TELEGRAM_CHAT_ID)
       THEN /\ pc' = [pc EXCEPT ![p] = "aborted"]
            /\ keywords' = [keywords EXCEPT ![p] = <<>>]
            /\ sources' = [sources EXCEPT ![p] = <<>>]
       ELSE /\ pc' = [pc EXCEPT ![p] = "load_state"]
            /\ keywords' = [keywords EXCEPT ![p] = KEYWORDS]
            /\ sources' = [sources EXCEPT ![p] = load_sources(sources_txt)]
    /\ processed' = [processed EXCEPT ![p] = FpSet({}, 0)]
    /\ new_processed' = [new_processed EXCEPT ![p] = {}]
    /\ to_notify' = [to_notify EXCEPT ![p] = <<>>]
    /\ src_i' = [src_i EXCEPT ![p] = 1]
    /\ entries' = [entries EXCEPT ![p] = <<>>]
    /\ send_i' = [send_i EXCEPT ![p] = 1]
    /\ seen' = [seen EXCEPT ![p] = <<>>]
    /\ attempts' = [attempts EXCEPT ![p] = <<>>]
    /\ file_at_start' = [file_at_start EXCEPT ![p] = processed_json]
    /\ file_ops' = [file_ops EXCEPT ![p] = <<>>]
    /\ summarized' = [summarized EXCEPT ![p] = <<>>]
    /\ queued' = [queued EXCEPT ![p] = <<>>]
    /\ UNCHANGED <<config, web, processed_json, file_log, persisted_ever, persisted_items>>

\* An invocation begins when no other is under way
Start(p) ==
    /\ \A q \in Procs : Finished(q)
    /\ Begin(p)

\* state = load_state(); processed = set(...); new_processed = set();
\* to_notify = []. An exception of load_state leaves main() uncaught.
LoadState(p) ==
    /\ pc[p] = "load_state"
    /\ LET loaded == load_state(processed_json)
       IN  IF loaded.raised
           THEN /\ pc' = [pc EXCEPT ![p] = "crashed"]
                /\ UNCHANGED processed
           ELSE /\ pc' = [pc EXCEPT ![p] = "sources"]
                /\ processed' = [processed EXCEPT ![p] = loaded.value]
    /\ file_ops' = [file_ops EXCEPT ![p] = Append(@, "read")]
    /\ file_log' = Append(file_log, <<p, "read">>)
    /\ UNCHANGED <<config, web, processed_json, keywords, sources, new_processed,
                   to_notify, src_i, entries, send_i, runs, history,
                   summarized, queued, persisted_ever, persisted_items>>

\* for src in sources: the entries of the source
FetchSource(p) ==
    /\ pc[p] = "sources"
    /\ src_i[p] <= Len(sources[p])
    /\ LET src == sources[p][src_i[p]]
           room == MaxItems - Len(seen[p])
       IN  IF startswith(src, "http")
           THEN \E feed \in FeedResponses(web.feed_items, room),
                   page \in PageResponses(web.page_links, room) :
                    entries' = [entries EXCEPT ![p] =
                        IF fetch_rss(feed) # <<>> THEN fetch_rss(feed)
                        ELSE scrape_links(page)]
           ELSE entries' = [entries EXCEPT ![p] = <<>>]
    /\ pc' = [pc EXCEPT ![p] = "entries"]
    /\ UNCHANGED <<config, web, processed_json, keywords, sources, processed,
                   new_processed, to_notify, src_i, send_i, runs, history,
                   trace, file_log, persisted_ever, persisted_items>>

\* Variant: fetch_plain_article_text without its try/except, so that a raise
\* of requests.get leaves main()
ProcessEntry_propagates(p) ==
    /\ pc[p] = "entries"
    /\ entries[p] # <<>>
    /\ LET e == Head(entries[p])
           uid == Uid(e)
       IN  IF IsProcessed(uid, processed[p])
           THEN /\ seen' = [seen EXCEPT ![p] = Append(@, <<e, NotFetched>>)]
                /\ UNCHANGED <<pc, to_notify, new_processed, summarized, queued>>
           ELSE \E response \in ArticleResponses(web.page_texts), now \in Clock :
                    LET article_text == fetch_plain_article_text(response)
                        summary == Summary(e, article_text)
                        msg == make_message(e, summary, now)
                        relevant == IsRelevant(e, article_text, keywords[p])
                    IN  /\ seen' = [seen EXCEPT ![p] = Append(@, <<e, response>>)]
                        /\ pc' = [pc EXCEPT ![p] =
                               IF response.raised THEN "crashed" ELSE @]
                        /\ IF relevant /\ ~response.raised
                           THEN /\ to_notify' = [to_notify EXCEPT ![p] =
                                                    Append(@, <<uid, msg>>)]
                                /\ queued' = [queued EXCEPT ![p] = Append(@,
                                       [entry |-> e, article_text |-> article_text])]
                                /\ summarized' = [summarized EXCEPT ![p] =
                                       @ \o summarizer_input(article_text)]
                                /\ new_processed' = [new_processed EXCEPT ![p] =
                                       @ \cup {uid}]
                           ELSE UNCHANGED <<to_notify, queued, summarized,
                                            new_processed>>
    /\ entries' = [entries EXCEPT ![p] = Tail(@)]
    /\ UNCHANGED <<config, web, processed_json, keywords, sources, processed,
                   src_i, send_i, runs, attempts, file_at_start, file_ops,
                   file_log, persisted_ever, persisted_items>>

\* for e in entries: one pass of the loop body
ProcessEntry(p) ==
    /\ pc[p] = "entries"
    /\ entries[p] # <<>>
    /\ LET e == Head(entries[p])
           uid == Uid(e)
       IN  IF IsProcessed(uid, processed[p])
           THEN /\ seen' = [seen EXCEPT ![p] = Append(@, <<e, NotFetched>>)]
                /\ UNCHANGED <<to_notify, new_processed, summarized, queued>>
           ELSE \E response \in ArticleResponses(web.page_texts), now \in Clock :
                    LET article_text == fetch_plain_article_text(response)
                        summary == Summary(e, article_text)
                        msg == make_message(e, summary, now)
                    IN  /\ seen' = [seen EXCEPT ![p] = Append(@, <<e, response>>)]
                        /\ IF IsRelevant(e, article_text, keywords[p])
                           THEN /\ to_notify' = [to_notify EXCEPT ![p] =
                                                    Append(@, <<uid, msg>>)]
                                /\ queued' = [queued EXCEPT ![p] = Append(@,
                                       [entry |-> e, article_text |-> article_text])]
                                /\ summarized' = [summarized EXCEPT ![p] =
                                       @ \o summarizer_input(article_text)]
                           ELSE UNCHANGED <<to_notify, queued, summarized>>
                        /\ new_processed' = [new_processed EXCEPT ![p] =
                               mark_new(@, uid,
                                        IsRelevant(e, article_text, keywords[p]))]
    /\ entries' = [entries EXCEPT ![p] = Tail(@)]
    /\ UNCHANGED <<config, web, processed_json, pc, keywords, sources, processed,
                   src_i, send_i, runs, attempts, file_at_start, file_ops,
                   file_log, persisted_ever, persisted_items>>

\* the entries of the source are exhausted: next source
NextSource(p) ==
    /\ pc[p] = "entries"
    /\ entries[p] = <<>>
    /\ src_i' = [src_i EXCEPT ![p] = @ + 1]
    /\ pc' = [pc EXCEPT ![p] = "sources"]
    /\ UNCHANGED <<config, web, processed_json, keywords, sources, processed,
                   new_processed, to_notify, entries, send_i, runs, history,
                   trace, file_log, persisted_ever, persisted_items>>

\* the sources are exhausted: on to the sending loop
EndOfSources(p) ==
    /\ pc[p] = "sources"
    /\ src_i[p] > Len(sources[p])
    /\ pc' = [pc EXCEPT ![p] = "send"]
    /\ UNCHANGED <<config, web, processed_json, locals, runs, history,
                   trace, file_log, persisted_ever, persisted_items>>

\* Variant: the try/except around the whole loop, so a raise ends it
Deliver_stopsOnFailure(p) ==
    /\ pc[p] = "send"
    /\ send_i[p] <= Len(to_notify[p])
    /\ \E ok \in BOOLEAN :
           /\ attempts' = [attempts EXCEPT ![p] =
                  Append(@, [uid |-> to_notify[p][send_i[p]][1],
                             message |-> to_notify[p][send_i[p]][2],
                             ok |-> ok])]
           /\ send_i' = [send_i EXCEPT ![p] =
                  IF ok THEN @ + 1 ELSE Len(to_notify[p]) + 1]
    /\ UNCHANGED <<config, web, processed_json, pc, keywords, sources, processed,
                   new_processed, to_notify, src_i, entries, runs, seen, file_at_start,
                   trace, file_log, persisted_ever, persisted_items>>

\* Variant: a send that raised takes the fingerprint back out of new_processed
Deliver_unmarksFailed(p) ==
    /\ pc[p] = "send"
    /\ send_i[p] <= Len(to_notify[p])
    /\ \E ok \in BOOLEAN :
           /\ attempts' = [attempts EXCEPT ![p] =
                  Append(@, [uid |-> to_notify[p][send_i[p]][1],
                             message |-> to_notify[p][send_i[p]][2],
                             ok |-> ok])]
           /\ new_processed' = [new_processed EXCEPT ![p] =
                  IF ok THEN @ ELSE @ \ {to_notify[p][send_i[p]][1]}]
    /\ send_i' = [send_i EXCEPT ![p] = @ + 1]
    /\ UNCHANGED <<config, web, processed_json, pc, keywords, sources, processed,
                   to_notify, src_i, entries, runs, seen, file_at_start,
                   trace, file_log, persisted_ever, persisted_items>>

\* Variant: the state is saved after every send that succeeded
Deliver_savesAfterEach(p) ==
    /\ pc[p] = "send"
    /\ send_i[p] <= Len(to_notify[p])
    /\ \E ok \in BOOLEAN :
           /\ attempts' = [attempts EXCEPT ![p] =
                  Append(@, [uid |-> to_notify[p][send_i[p]][1],
                             message |-> to_notify[p][send_i[p]][2],
                             ok |-> ok])]
           /\ IF ok
              THEN /\ \E kept \in Trimmed(Union(processed[p],
                                                  {to_notify[p][send_i[p]][1]})) :
                          processed_json' = File("ok", kept)
                   /\ file_ops' = [file_ops EXCEPT ![p] = Append(@, "write")]
              ELSE UNCHANGED <<processed_json, file_ops>>
    /\ send_i' = [send_i EXCEPT ![p] = @ + 1]
    /\ UNCHANGED <<config, web, pc, keywords, sources, processed,
                   new_processed, to_notify, src_i, entries, runs, seen, file_at_start,
                   summarized, queued, file_log, persisted_ever, persisted_items>>

\* for uid, message in to_notify: one bot.send_message, which may raise;
\* the exception is logged and the loop goes on
Deliver(p) ==
    /\ pc[p] = "send"
    /\ send_i[p] <= Len(to_notify[p])
    /\ \E ok \in BOOLEAN :
           attempts' = [attempts EXCEPT ![p] =
               Append(@, [uid |-> to_notify[p][send_i[p]][1],
                          message |-> to_notify[p][send_i[p]][2],
                          ok |-> ok])]
    /\ send_i' = [send_i EXCEPT ![p] = @ + 1]
    /\ UNCHANGED <<config, web, processed_json, pc, keywords, sources, processed,
                   new_processed, to_notify, src_i, entries, runs, seen, file_at_start,
                   trace, file_log, persisted_ever, persisted_items>>

\* combined = list(processed.union(new_processed));
\* state["processed"] = combined[-2000:]; save_state(state)
SaveState(p) ==
    /\ pc[p] = "send"
    /\ send_i[p] > Len(to_notify[p])
    /\ \E kept \in Trimmed(Union(processed[p], new_processed[p])) :
           /\ processed_json' = File("ok", kept)
           /\ persisted_ever' = persisted_ever \cup (Uids(to_notify[p]) \cap kept.known)
           /\ persisted_items' = persisted_items \cup
                  {queued[p][k].entry : k \in {j \in 1..Len(queued[p]) :
                                            to_notify[p][j][1] \in kept.known}}
    /\ file_ops' = [file_ops EXCEPT ![p] = Append(@, "write")]
    /\ file_log' = Append(file_log, <<p, "write">>)
    /\ pc' = [pc EXCEPT ![p] = "done"]
    /\ UNCHANGED <<config, web, locals, runs, history, summarized, queued>>

Step(p) ==
    \/ Start(p)
    \/ LoadState(p)
    \/ FetchSource(p)
    \/ ProcessEntry(p)
    \/ NextSource(p)
    \/ EndOfSources(p)
    \/ Deliver(p)
    \/ SaveState(p)

\* Non-overlapping invocations of main(), each from the file the last one left
Next == Step("cron")

Spec == Init /\ [][Next]_vars

\* The statements of main() after the credential check, the body of the entry
\* loop apart
Proceeds(p) ==
    \/ LoadState(p)
    \/ FetchSource(p)
    \/ NextSource(p)
    \/ EndOfSources(p)
    \/ Deliver(p)
    \/ SaveState(p)

\* The body of the entry loop comes to its end for the entry at hand
BodyCompletes(p) ==
    /\ pc[p] = "entries"
    /\ entries[p] # <<>>
    /\ entries' = [entries EXCEPT ![p] = Tail(@)]

\* Invocations with the credentials set, where the interpreter goes on as long
\* as a statement of main() is left to execute: every call into the network
\* returns or raises (the requests carry timeouts)
FairInit ==
    InitFrom({"123:abc"}, {"-1001"}, KeywordsEnv, SourcesFiles, NewsWeb,
             {File("missing", FpSet({}, 0)), File("ok", FpSet({}, 0))})
FairSpec ==
    /\ FairInit /\ [][Next]_vars
    /\ WF_vars(Proceeds("cron"))
    /\ WF_entries(BodyCompletes("cron"))

\* Two invocations of main(), each entered once, at any time: nothing in the
\* program keeps a second invocation from running while the first is under way
BeginOnce(p) == pc[p] = "idle" /\ Begin(p)

ConcurrentNext ==
    \E p \in Procs :
        \/ BeginOnce(p)
        \/ LoadState(p)
        \/ FetchSource(p)
        \/ ProcessEntry(p)
        \/ NextSource(p)
        \/ EndOfSources(p)
        \/ Deliver(p)
        \/ SaveState(p)

ConcurrentInit ==
    InitFrom({"123:abc"}, {"-1001"}, {"finance, Bank"},
             {[exists |-> FALSE, lines |-> <<>>]}, SmallWeb,
             {File("missing", FpSet({}, 0))})
ConcurrentSpec == ConcurrentInit /\ [][ConcurrentNext]_vars

\* Invocations against feeds with long titles and snippets
LongTextInit ==
    InitFrom({"123:abc"}, {"-1001"}, {"finance, Bank"},
             {[exists |-> FALSE, lines |-> <<>>]}, LongWeb,
             {File("missing", FpSet({}, 0))})
LongTextSpec == LongTextInit /\ [][Next]_vars

\* Invocations against feeds whose titles carry a keyword inside a longer word
MorphologyInit ==
    InitFrom({"123:abc"}, {"-1001"}, {"finance, Bank"}, SourcesFiles,
             MorphologyWeb, {File("missing", FpSet({}, 0))})
MorphologySpec == MorphologyInit /\ [][Next]_vars


(***************************************************************************)
(* Vocabulary of the properties                                            *)
(***************************************************************************)
\* main() of p is between load_state and save_state
Loaded(p) == pc[p] \in {"sources", "entries", "send"}

\* fingerprints bot.send_message was called for
AttemptUids(p) == {attempts[p][i].uid : i \in 1..Len(attempts[p])}

\* fingerprints a finished invocation queued and saved, and still in the file
persisted_kept == persisted_ever \cap processed_json.fps.known

\* the i-th entry met by p, the answer of its article fetch, its fingerprint
SeenEntry(p, i) == seen[p][i][1]
SeenResponse(p, i) == seen[p][i][2]
SeenUid(p, i) ==
    md5_text(Take(SeenEntry(p, i).title \o SeenEntry(p, i).link, FINGERPRINT_CHARS))

\* The keyword test tabulated: for each keyword list and entry of the model,
\* whether lowercase(title + " " + snippet) matches; for each keyword list and
\* answer of the article fetch, whether the body matches
KeywordLists == {split(k, ",") : k \in KeywordsEnv}
Items == FeedItems \cup PageLinks
TitleHits ==
    {<<ke[1], ke[2],
       matches_keywords(
           lower(ke[2].title \o " "
                 \o (IF "summary" \in DOMAIN ke[2] THEN ke[2].summary ELSE "")),
           ke[1])>> : ke \in KeywordLists \X Items}
BodyHits ==
    {<<kr[1], kr[2],
       matches_keywords(IF kr[2].raised THEN "" ELSE kr[2].value, kr[1])>> :
           kr \in KeywordLists \X ArticleResponses(PageTexts)}

\* the i-th entry met by p was new and matched the keywords, on
\* lowercase(title + " " + snippet) or else on the fetched article body
Matched(p, i) ==
    /\ SeenUid(p, i) \notin processed[p].known
    /\ \/ <<keywords[p], SeenEntry(p, i), TRUE>> \in TitleHits
       \/ <<keywords[p], SeenResponse(p, i), TRUE>> \in BodyHits

\* the i-th entry met by p was new and matched neither way
Discarded(p, i) ==
    /\ SeenUid(p, i) \notin processed[p].known
    /\ ~Matched(p, i)

\* the number of fingerprints save_state was handed before the slice
MergedSize(p) ==
    Cardinality(processed[p].known \cup new_processed[p]) + processed[p].other

(***************************************************************************)
(* C1                                                                      *)
(***************************************************************************)
\* C1 (as stated): a fingerprint queued and saved by one invocation is never
\* queued or sent by a later invocation, whatever happened in between.
C1_NeverAgain ==
    \A p \in Procs :
        Loaded(p) => (Uids(to_notify[p]) \cup AttemptUids(p)) \cap persisted_ever = {}

\* C1 (amended): a fingerprint queued and saved by one invocation is never
\* queued or sent by a later invocation as long as no save since has dropped
\* it from processed.json.
C1_NeverAgainWhileKept ==
    \A p \in Procs :
        Loaded(p) => (Uids(to_notify[p]) \cup AttemptUids(p)) \cap persisted_kept = {}

\* A later invocation met an entry an earlier one had queued and saved, and
\* reached its sending loop.
C1_Witness ==
    \E p \in Procs :
        /\ pc[p] = "send"
        /\ runs >= 2
        /\ \E i \in 1..Len(seen[p]) : SeenUid(p, i) \in persisted_kept

(***************************************************************************)
(* C2                                                                      *)
(***************************************************************************)
\* C2: an entry whose fingerprint is in the set loaded at the start is skipped
\* before any article fetch: it is not queued, not sent and not added to
\* new_processed, whether or not its text matches the keywords.
C2_SkipsProcessed ==
    \A p \in Procs :
        pc[p] \in {"sources", "entries", "send", "done"} =>
            \A i \in 1..Len(seen[p]) :
                SeenUid(p, i) \in processed[p].known =>
                    /\ SeenResponse(p, i) = NotFetched
                    /\ SeenUid(p, i) \notin Uids(to_notify[p])
                    /\ SeenUid(p, i) \notin AttemptUids(p)
                    /\ SeenUid(p, i) \notin new_processed[p]

\* An invocation finished after meeting an already processed entry whose title
\* matches the keywords.
C2_Witness ==
    \E p \in Procs :
        /\ pc[p] = "done"
        /\ \E i \in 1..Len(seen[p]) :
               /\ SeenUid(p, i) \in processed[p].known
               /\ matches_keywords(lower(SeenEntry(p, i).title), keywords[p])

(***************************************************************************)
(* C3                                                                      *)
(***************************************************************************)
\* The entries met by p that were new and matched, in the order met
MatchedIndices(p) == SelectSeq([i \in 1..Len(seen[p]) |-> i], LAMBDA i : Matched(p, i))

\* to_notify holds one message per new and matching entry, in order, with its
\* fingerprint, its title and its link
C3_QueueIsTheMatches ==
    \A p \in Procs :
        pc[p] \in {"sources", "entries", "send", "done"} =>
            /\ Len(to_notify[p]) = Len(MatchedIndices(p))
            /\ \A k \in 1..Len(to_notify[p]) :
                   LET i == MatchedIndices(p)[k]
                   IN  /\ to_notify[p][k][1] = SeenUid(p, i)
                       /\ IsSubstring(strip(SeenEntry(p, i).title), to_notify[p][k][2])
                       /\ IsSubstring(strip(SeenEntry(p, i).link), to_notify[p][k][2])

\* C3: an entry is queued (one message with its title and link) exactly when it
\* is new and matches; every queued entry gets one delivery attempt and its
\* fingerprint is in processed.json after the invocation.
C3_QueuedAttemptedPersisted ==
    /\ C3_QueueIsTheMatches
    /\ \A p \in Procs :
           pc[p] = "done" =>
               /\ Len(attempts[p]) = Len(to_notify[p])
               /\ \A k \in 1..Len(to_notify[p]) :
                      /\ attempts[p][k].uid = to_notify[p][k][1]
                      /\ to_notify[p][k][1] \in processed_json.fps.known

(***************************************************************************)
(* C4                                                                      *)
(***************************************************************************)
\* C4 (as stated): the fingerprint of an entry that matched neither way is not
\* in new_processed, and not in processed.json after the invocation unless it
\* was in the loaded set.
C4_DiscardedNotMarked ==
    \A p \in Procs :
        pc[p] \in {"sources", "entries", "send", "done"} =>
            \A i \in 1..Len(seen[p]) :
                Discarded(p, i) =>
                    /\ SeenUid(p, i) \notin new_processed[p]
                    /\ pc[p] = "done" => SeenUid(p, i) \notin processed_json.fps.known

\* C4 (amended): the same, unless another entry of the same invocation with the
\* same fingerprint matched and was queued.
C4_DiscardedNotMarkedUnlessQueued ==
    \A p \in Procs :
        pc[p] \in {"sources", "entries", "send", "done"} =>
            \A i \in 1..Len(seen[p]) :
                (Discarded(p, i) /\ SeenUid(p, i) \notin Uids(to_notify[p])) =>
                    /\ SeenUid(p, i) \notin new_processed[p]
                    /\ pc[p] = "done" => SeenUid(p, i) \notin processed_json.fps.known

\* An invocation finished after discarding an entry whose article was fetched,
\* was not empty and did not match.
C4_Witness ==
    \E p \in Procs :
        /\ pc[p] = "done"
        /\ \E i \in 1..Len(seen[p]) :
               /\ Discarded(p, i)
               /\ ~SeenResponse(p, i).raised
               /\ SeenUid(p, i) \notin Uids(to_notify[p])
               /\ SeenUid(p, i) \notin processed_json.fps.known


(***************************************************************************)
(* C5                                                                      *)
(***************************************************************************)
\* C5: the fingerprint of every queued message is in the merged set handed to
\* the save, whether its send succeeded or raised; when the merged set is
\* within the bound it is in processed.json after the invocation.
C5_FailedStillMarked ==
    \A p \in Procs :
        pc[p] \in {"send", "done"} =>
            \A k \in 1..Len(to_notify[p]) :
                /\ to_notify[p][k][1] \in processed[p].known \cup new_processed[p]
                /\ (pc[p] = "done" /\ MergedSize(p) <= KEEP_LAST) =>
                       to_notify[p][k][1] \in processed_json.fps.known

\* An invocation finished with a send that raised, its fingerprint saved.
C5_Witness ==
    \E p \in Procs :
        /\ pc[p] = "done"
        /\ \E k \in 1..Len(attempts[p]) :
               /\ ~attempts[p][k].ok
               /\ attempts[p][k].uid \in processed_json.fps.known

(***************************************************************************)
(* C6                                                                      *)
(***************************************************************************)
\* C6: the calls of bot.send_message are the queued messages in queue order,
\* each once; a call that raised is followed by the calls for the rest.
C6_AttemptsFollowQueue ==
    \A p \in Procs :
        /\ Len(attempts[p]) <= Len(to_notify[p])
        /\ \A k \in 1..Len(attempts[p]) :
               /\ attempts[p][k].uid = to_notify[p][k][1]
               /\ attempts[p][k].message = to_notify[p][k][2]
        /\ pc[p] = "done" => Len(attempts[p]) = Len(to_notify[p])

\* An invocation finished whose first send raised and was followed by another.
C6_Witness ==
    \E p \in Procs :
        /\ pc[p] = "done"
        /\ Len(attempts[p]) >= 2
        /\ ~attempts[p][1].ok

(***************************************************************************)
(* C7                                                                      *)
(***************************************************************************)
\* C7: after an invocation that reached the save, processed.json holds at
\* most 2000 fingerprints.
C7_BoundedState ==
    \A p \in Procs :
        pc[p] = "done" => Size(processed_json.fps) <= KEEP_LAST

\* An invocation finished whose merged set was larger than the bound.
C7_Witness ==
    \E p \in Procs :
        /\ pc[p] = "done"
        /\ new_processed[p] # {}
        /\ Cardinality(file_at_start[p].fps.known \cup new_processed[p])
              + file_at_start[p].fps.other > KEEP_LAST

(***************************************************************************)
(* C8                                                                      *)
(***************************************************************************)
\* C8: when the merged set exceeds the bound, the dropped fingerprints are the
\* oldest; the ones new in this invocation (at most 2000) are all kept.
C8_NewestKept ==
    \A p \in Procs :
        (pc[p] = "done" /\ Cardinality(new_processed[p]) <= KEEP_LAST) =>
            new_processed[p] \subseteq processed_json.fps.known

(***************************************************************************)
(* C9                                                                      *)
(***************************************************************************)
\* C9: when the loaded set and the new fingerprints together are within the
\* bound, processed.json after the invocation is exactly their union, the new
\* ones are exactly those of the queued messages, and an invocation that
\* queued nothing leaves the set as it was.
C9_SavedIsUnion ==
    \A p \in Procs :
        ( /\ pc[p] = "done"
          /\ Cardinality(file_at_start[p].fps.known \cup new_processed[p])
                + file_at_start[p].fps.other <= KEEP_LAST ) =>
            /\ processed_json.kind = "ok"
            /\ processed_json.fps.known
                  = file_at_start[p].fps.known \cup Uids(to_notify[p])
            /\ processed_json.fps.other = file_at_start[p].fps.other
            /\ to_notify[p] = <<>> => processed_json.fps = file_at_start[p].fps

\* An invocation finished that added a new fingerprint to a non-empty file
\* without reaching the bound.
C9_Witness ==
    \E p \in Procs :
        /\ pc[p] = "done"
        /\ file_at_start[p].fps.known # {}
        /\ new_processed[p] \ file_at_start[p].fps.known # {}
        /\ Size(processed_json.fps) <= KEEP_LAST
        /\ file_at_start[p].fps.known \subseteq processed_json.fps.known

(***************************************************************************)
(* C10                                                                     *)
(***************************************************************************)
\* C10: an invocation that finds processed.json missing or corrupt goes on
\* with an empty set instead of aborting.
C10_LoadNeverFails ==
    \A p \in Procs :
        (pc[p] \notin {"idle", "aborted", "load_state"}
            /\ file_at_start[p].kind # "ok") =>
            /\ pc[p] # "crashed"
            /\ processed[p] = [known |-> {}, other |-> 0]

(***************************************************************************)
(* C11                                                                     *)
(***************************************************************************)
\* C11: when TELEGRAM_TOKEN or TELEGRAM_CHAT_ID is not set, an invocation ends
\* at the credential check: no source and no article is fetched, nothing is
\* queued or sent, and processed.json is neither read nor written.
C11_AbortsBeforeWork ==
    \A p \in Procs :
        (pc[p] # "idle" /\ (TELEGRAM_TOKEN = None \/ TELEGRAM_CHAT_ID = None)) =>
            /\ pc[p] = "aborted"
            /\ src_i[p] = 1 /\ entries[p] = <<>> /\ seen[p] = <<>>
            /\ summarized[p] = <<>>
            /\ to_notify[p] = <<>> /\ attempts[p] = <<>>
            /\ file_ops[p] = <<>>
            /\ processed_json = file_at_start[p]
            /\ processed_json \in InitialFiles

\* A second invocation ended at the check, the token set and the chat id not.
C11_Witness ==
    \E p \in Procs :
        /\ pc[p] = "aborted"
        /\ runs >= 2
        /\ TELEGRAM_TOKEN # None
        /\ TELEGRAM_CHAT_ID = None

(***************************************************************************)
(* C12                                                                     *)
(***************************************************************************)
\* what a finished invocation has gone through: every source, every entry the
\* sources handed out, one send per queued message, then the save
RanToTheEnd(p) ==
    /\ src_i[p] = Len(sources[p]) + 1
    /\ entries[p] = <<>>
    /\ Len(attempts[p]) = Len(to_notify[p])
    /\ file_ops[p] = <<"read", "write">>

\* C12: an invocation that loaded its state reaches the save, whatever source
\* fetch, article fetch, summarization or send failed on the way: it stops
\* nowhere else than at the load, and a finished invocation has gone through
\* every source, every entry and every queued message.
C12_RunReachesSave ==
    /\ [](\A p \in Procs :
            /\ pc[p] = "crashed" => (file_ops[p] = <<"read">> /\ seen[p] = <<>>)
            /\ pc[p] = "done" => RanToTheEnd(p))
    /\ \A p \in Procs : Loaded(p) ~> (pc[p] = "done")

\* An invocation finished although the article fetch of its first entry
\* raised, the summarizer raised on a later entry and the first send raised.
C12_Witness ==
    \E p \in Procs :
        /\ pc[p] = "done"
        /\ Len(seen[p]) >= 2
        /\ seen[p][1][2] = Raised
        /\ \E i \in 1..Len(summarized[p]) : summarize_text(summarized[p][i]).raised
        /\ Len(attempts[p]) >= 2
        /\ ~attempts[p][1].ok

(***************************************************************************)
(* C13                                                                     *)
(***************************************************************************)
\* The dictionary form of a word, for the words of the feeds
lemmatize(word) ==
    CASE word = "banks" -> "bank"
      [] word = "reported" -> "report"
      [] word = "broken" -> "break"
      [] OTHER -> word

\* The lemmas of the whitespace tokens of a text, lower-cased
lemmas(text) ==
    LET fields == split(lower(text), " ")
    IN  {lemmatize(strip(fields[i])) : i \in {j \in 1..Len(fields) : strip(fields[j]) # ""}}

\* Some token of the text has the lemma of some token of some keyword
lemma_matches(text, keyword_list) ==
    lemmas(text) \cap UNION {lemmas(keyword_list[i]) : i \in 1..Len(keyword_list)} # {}

\* C13: matching is by lemma, not by substring: a new entry is queued exactly
\* when a token of its title and snippet, or else of its article, has the lemma
\* of a keyword token; "Bankomat broken" is not queued for the keyword "Bank",
\* "Banks reported" is.
C13_LemmaBased ==
    \A p \in Procs :
        pc[p] \in {"sources", "entries", "send", "done"} =>
            \A i \in 1..Len(seen[p]) :
                SeenUid(p, i) \notin processed[p].known =>
                    ( (\E k \in 1..Len(queued[p]) : queued[p][k].entry = SeenEntry(p, i))
                      <=> \/ lemma_matches(SeenEntry(p, i).title \o " "
                                              \o Get(SeenEntry(p, i), "summary", ""),
                                           keywords[p])
                          \/ lemma_matches(IF SeenResponse(p, i).raised THEN ""
                                           ELSE SeenResponse(p, i).value, keywords[p]) )

(***************************************************************************)
(* C14                                                                     *)
(***************************************************************************)
\* every entry of the keyword list is empty or whitespace
AllBlank(keyword_list) == \A i \in 1..Len(keyword_list) : strip(keyword_list[i]) = ""

\* C14: the matcher fails closed: an invocation whose keyword list holds only
\* empty or whitespace entries queues nothing, and an entry whose title and
\* snippet do not match and whose article text is empty is not queued.
C14_FailsClosed ==
    /\ [](\A p \in Procs :
            (pc[p] \in {"sources", "entries", "send", "done"} /\ AllBlank(keywords[p])) =>
                (to_notify[p] = <<>> /\ new_processed[p] = {} /\ attempts[p] = <<>>))
    /\ [][\A p \in Procs :
            ( /\ Len(seen'[p]) = Len(seen[p]) + 1
              /\ <<keywords[p], seen'[p][Len(seen'[p])][1], FALSE>> \in TitleHits
              /\ seen'[p][Len(seen'[p])][2] = Raised ) =>
                (to_notify'[p] = to_notify[p] /\ new_processed'[p] = new_processed[p])]_vars

\* An invocation with blank keywords only finished, after meeting the entry
\* "Duma passed law on Banks" with a fetched article about the central bank,
\* then " Weather " whose article could not be fetched.
C14_Witness ==
    \E p \in Procs :
        /\ pc[p] = "done"
        /\ Len(seen[p]) >= 2
        /\ AllBlank(keywords[p])
        /\ SeenEntry(p, 1) = ItemA
        /\ SeenResponse(p, 1) = Returned("Central bank cut rates. Markets rose. More soon. End")
        /\ SeenEntry(p, 2) = ItemB
        /\ SeenResponse(p, 2) = Raised

(***************************************************************************)
(* C15                                                                     *)
(***************************************************************************)
\* C15: an invocation past the credential check reads processed.json once,
\* before it meets any entry, and writes it once, after the last send; until
\* that write the file is as it was when the invocation began, so an invocation
\* that stops anywhere before (at the load included) leaves it untouched.
C15_ReadOnceWriteOnce ==
    /\ [](\A p \in Procs :
            /\ pc[p] = "load_state" =>
                   (file_ops[p] = <<>> /\ seen[p] = <<>> /\ processed_json = file_at_start[p])
            /\ pc[p] \in {"crashed", "sources", "entries", "send"} =>
                   (file_ops[p] = <<"read">> /\ processed_json = file_at_start[p])
            /\ pc[p] = "done" =>
                   /\ file_ops[p] = <<"read", "write">>
                   /\ Len(attempts[p]) = Len(to_notify[p])
                   /\ entries[p] = <<>>)
    /\ [][processed_json' # processed_json =>
              \E p \in Procs :
                  /\ pc[p] = "send" /\ pc'[p] = "done"
                  /\ send_i[p] > Len(to_notify[p])
                  /\ Len(attempts[p]) = Len(to_notify[p])]_vars

\* An invocation that queued and sent two messages wrote a file different from
\* the one it had read.
C15_Witness ==
    \E p \in Procs :
        /\ pc[p] = "done"
        /\ Len(attempts[p]) >= 2
        /\ file_ops[p] = <<"read", "write">>
        /\ processed_json # file_at_start[p]

(***************************************************************************)
(* C16                                                                     *)
(***************************************************************************)
\* fingerprints of the messages bot.send_message accepted
DeliveredUids(p) == {attempts[p][i].uid : i \in {j \in 1..Len(attempts[p]) : attempts[p][j].ok}}

\* the place of p's read, of p's write in the log of processed.json (0: none)
ReadAt(p) ==
    IF \E i \in 1..Len(file_log) : file_log[i] = <<p, "read">>
    THEN CHOOSE i \in 1..Len(file_log) : file_log[i] = <<p, "read">> ELSE 0
WriteAt(p) ==
    IF \E i \in 1..Len(file_log) : file_log[i] = <<p, "write">>
    THEN CHOOSE i \in 1..Len(file_log) : file_log[i] = <<p, "write">> ELSE 0

\* the load-to-save intervals of p and q overlap: each read before the other
\* wrote
Overlap(p, q) ==
    /\ ReadAt(p) > 0 /\ ReadAt(q) > 0
    /\ WriteAt(q) = 0 \/ ReadAt(p) < WriteAt(q)
    /\ WriteAt(p) = 0 \/ ReadAt(q) < WriteAt(p)

\* an item was delivered by both invocations
DeliveredTwice(p, q) == DeliveredUids(p) \cap DeliveredUids(q) # {}
\* a delivered item is missing from the file the two invocations leave
DeliveredAndLost(p, q) ==
    (DeliveredUids(p) \cup DeliveredUids(q)) \ processed_json.fps.known # {}

\* C16: two invocations on the same processed.json are unsafe when they
\* overlap: an item is delivered by both, or a delivered item is missing from
\* the file they leave, in some interleavings (C16_Witness shows one), and in
\* those only where each invocation loaded before the other saved.
C16_UnsafeWhenOverlapping ==
    \A p, q \in Procs :
        (p # q /\ pc[p] = "done" /\ pc[q] = "done") =>
            ((DeliveredTwice(p, q) \/ DeliveredAndLost(p, q)) => Overlap(p, q))

\* Two overlapping invocations have finished: both delivered the same item,
\* and the later save dropped the fingerprint of an item the other delivered.
C16_Witness ==
    \E p, q \in Procs :
        /\ p # q /\ pc[p] = "done" /\ pc[q] = "done"
        /\ Overlap(p, q)
        /\ WriteAt(p) < WriteAt(q)
        /\ DeliveredTwice(p, q)
        /\ DeliveredUids(p) \ processed_json.fps.known # {}

(***************************************************************************)
(* C17                                                                     *)
(***************************************************************************)
\* C17: within one invocation a fingerprint is queued at most once and sent at
\* most once, also when two entries of the invocation share it.
C17_OncePerFingerprint ==
    \A p \in Procs :
        /\ \A j, k \in 1..Len(to_notify[p]) :
               to_notify[p][j][1] = to_notify[p][k][1] => j = k
        /\ \A j, k \in 1..Len(attempts[p]) :
               attempts[p][j].uid = attempts[p][k].uid => j = k

(***************************************************************************)
(* C18                                                                     *)
(***************************************************************************)
\* s ends with suffix
EndsWith(s, suffix) ==
    Len(suffix) <= Len(s) /\ SubSeq(s, Len(s) - Len(suffix) + 1, Len(s)) = suffix

\* the article texts fetched for the queued entries, the empty ones left out
NonEmptyArticles(p) ==
    LET texts == [k \in 1..Len(queued[p]) |-> queued[p][k].article_text]
    IN  SelectSeq(texts, LAMBDA t : t # "")

\* C18: the summarizer is called on non-empty article texts only; a queued
\* entry whose article text is empty (the fetch raised) gets as summary the
\* first 300 characters of its snippet and "...", or the placeholder when it
\* has no snippet.
C18_EmptyArticleFallsBack ==
    \A p \in Procs :
        /\ Len(queued[p]) = Len(to_notify[p])
        /\ summarized[p] = NonEmptyArticles(p)
        /\ \A k \in 1..Len(queued[p]) :
               LET e == queued[p][k].entry
                   snippet == IF "summary" \in DOMAIN e THEN e.summary ELSE ""
                   expected == IF snippet = "" THEN "No short text."
                               ELSE IF Len(snippet) <= 300 THEN snippet \o "..."
                               ELSE SubSeq(snippet, 1, 300) \o "..."
               IN  queued[p][k].article_text = "" =>
                       EndsWith(to_notify[p][k][2],
                                "T <b>Brief:</b>\n" \o expected \o "\n\n")

\* An invocation finished that queued an entry with a snippet of more than 300
\* characters and one without snippet, both with an article that could not be
\* fetched.
C18_Witness ==
    \E p \in Procs :
        /\ pc[p] = "done"
        /\ \E k \in 1..Len(queued[p]) :
               /\ queued[p][k].article_text = ""
               /\ Len(Get(queued[p][k].entry, "summary", "")) > 300
        /\ \E k \in 1..Len(queued[p]) :
               /\ queued[p][k].article_text = ""
               /\ Get(queued[p][k].entry, "summary", "") = ""

(***************************************************************************)
(* C19                                                                     *)
(***************************************************************************)
\* the first 500 characters of title + link
Key(e) ==
    LET both == e.title \o e.link
    IN  IF Len(both) <= 500 THEN both ELSE SubSeq(both, 1, 500)

\* C19: the fingerprint depends on the first 500 characters of title + link
\* and on nothing else: two queued entries carry the same fingerprint exactly
\* when these agree, and an entry is skipped as already processed exactly when
\* an entry agreeing with it on them was queued and saved by an earlier
\* invocation, whatever their titles and links are otherwise.
C19_FirstFiveHundred ==
    \A p \in Procs :
        /\ \A j, k \in 1..Len(queued[p]) :
               (to_notify[p][j][1] = to_notify[p][k][1])
                   <=> (Key(queued[p][j].entry) = Key(queued[p][k].entry))
        /\ Loaded(p) =>
               \A i \in 1..Len(seen[p]) :
                   (SeenResponse(p, i) = NotFetched)
                       <=> (\E e \in persisted_items : Key(e) = Key(SeenEntry(p, i)))

\* A later invocation skipped the entry with the 500-character title, which
\* was never queued, because the entry with the 499-character title and
\* another link had been; it did not skip the entry that differs from the
\* skipped one in character 500 only.
C19_Witness ==
    \E p \in Procs :
        /\ Loaded(p)
        /\ persisted_items = {ItemLong1}
        /\ \E i \in 1..Len(seen[p]) :
               SeenEntry(p, i) = ItemLong2 /\ SeenResponse(p, i) = NotFetched
        /\ \E i \in 1..Len(seen[p]) :
               SeenEntry(p, i) = ItemLong3 /\ SeenResponse(p, i) # NotFetched

=============================================================================
